---------------------------- MODULE Spec2Model ----------------------------
(***************************************************************************)
(* Model of the Velmex VXM serial client (vxm.py, libvxm.py).              *)
(*                                                                         *)
(* Text is a sequence of one-character strings.  The transport is the      *)
(* pyserial port: a receive buffer rx, and the trace of what the port was  *)
(* asked to do (flushes and writes in `log', the number of read calls in   *)
(* `reads').  The controller is the environment: it may put any byte into  *)
(* rx at any moment.                                                       *)
(*                                                                         *)
(* Time: `now' is time.time() in ticks of 10 ms, counted from the entry of *)
(* the current top-level call (the program keeps no time value across      *)
(* calls).  Statements take no time; time passes only while the program    *)
(* is inside time.sleep or inside a blocking ser.read, and never past the  *)
(* moment that sleep or read is due to return.                             *)
(***************************************************************************)
EXTENDS Integers, Sequences, FiniteSets, TLC

VARIABLES
    impl,         \* which class the session is: "vxm" (vxm.py) or "libvxm" (libvxm.py)
    ready_mode,   \* self.ready_mode: "char" | "silence"
    quiet_ms,     \* self.quiet_ms, in ticks
    ser_timeout,  \* self.ser.timeout, in ticks
    rx,           \* transport receive buffer (bytes not yet read)
    log,          \* transport trace: flushes and writes, in order
    reads,        \* number of ser.read calls made so far
    now,          \* time.time(), ticks since entry of the current call
    op,           \* the top-level call in progress, or [name |-> "none"]
    todo,         \* the send calls the current top-level call still makes; Head is running
    pc,           \* position inside the running send / wait_ready / _read_line
    resp,         \* send: local resp
    end,          \* wait_ready / _read_line: local end
    buf,          \* wait_ready / _read_line: local buf
    last_rx,      \* wait_ready (silence): local last_rx
    wakeAt,       \* when the current sleep or blocking read is due to return
    result,       \* outcome of the last finished top-level call
    ncalls,       \* top-level calls started so far
    arrived,      \* bytes the controller has emitted so far
    emitted,      \* history: for each byte of a replying controller, the command it answers
    entryLog,     \* history: Len(log) at entry of the current top-level call
    entryReads,   \* history: reads at entry of the current top-level call
    wStart,       \* history: now at entry of the current wait_ready
    rdBytes,      \* history: raw bytes the current wait_ready has read, in order
    lastPoll,     \* history: raw bytes returned by the latest ser.read of wait_ready
    lastRead,     \* history: when a ser.read of this wait_ready last returned a byte (or its entry)
    retAt,        \* history: now when the latest wait_ready returned or raised
    lastArr,      \* history: when the controller last emitted a byte (or wait_ready was entered)
    quietSeen,    \* history: a gap of quiet_ms without emitted bytes occurred in this wait
    expect,       \* history: the transport trace the send calls made so far should produce
    asciiOnly,    \* history: every command passed to send so far was pure ASCII
    flushArr,     \* history: bytes the controller had emitted at the latest reset_input_buffer
    steps_per_mm, \* self.steps_per_mm: None, a float, or not assigned yet
    faulty,       \* the port is one whose write may raise (unplugged adapter, write timeout)
    samp,         \* is_busy: the texts position has returned to it so far (p1s, p2s)
    waitEnds,     \* history: how each wait of the current top-level call ended ("ready" | "deadline")
    entryGone     \* history: bytes already read or flushed at entry of the current top-level call

vars == <<impl, ready_mode, quiet_ms, ser_timeout, rx, log, reads, now, op, todo,
          pc, resp, end, buf, last_rx, wakeAt, result, ncalls, arrived,
          entryLog, entryReads, wStart, rdBytes, lastPoll, lastRead, retAt, lastArr,
          quietSeen, expect, asciiOnly, steps_per_mm, faulty, samp, waitEnds, entryGone,
          emitted, flushArr>>

-----------------------------------------------------------------------------
(* Bounds of the exploration *)

MaxArrive == 3     \* bytes the controller emits during a wait_ready or send behaviour
IoArrive == 2      \* bytes the controller emits during a behaviour of any other call
MaxRx == 2         \* bytes the receive buffer holds unread
MaxTimeout == 3    \* largest timeout argument, in ticks
MaxQuiet == 2      \* largest quiet_ms, in ticks
MaxSerTimeout == 2 \* largest ser.timeout, in ticks
MaxClock == 40     \* the clock stops here (no call of the model lasts that long)

(* Program constants, in ticks of 10 ms *)

SleepTicks == 1    \* time.sleep(0.01)
GraceTicks == 3    \* time.sleep(0.03)

\* send's default timeout (60.0 s) and run's (120.0 s): longer than every
\* timeout a caller of the model chooses; scaled to the model's clock.
DefaultTimeout == MaxTimeout
RunDefaultTimeout == MaxTimeout

-----------------------------------------------------------------------------
(* Text *)

CR == "\r"
ready_char == "^"
BadByte == "0xFF"      \* a byte bytes.decode(errors="ignore") drops
NonAscii == "U+00E9"   \* a character str.encode("ascii", errors="ignore") drops

Bytes == {"1", CR, ready_char, BadByte}

Min(S) == CHOOSE x \in S : \A y \in S : x <= y
Max(S) == CHOOSE x \in S : \A y \in S : x >= y

IsDecodable(b) == b # BadByte
Decode(bs) == SelectSeq(bs, IsDecodable)

IsAscii(c) == c # NonAscii

\* mutant of Encode: the terminator is lost with the non-ASCII characters
Encode_DropCR(s) == SelectSeq(s, LAMBDA c : IsAscii(c) /\ c # CR)

\* str.encode("ascii", errors="ignore")
Encode(s) == SelectSeq(s, IsAscii)

IsSpace(c) == c \in {" ", "\t", "\n", "\r"}

\* str.strip()
Strip(s) ==
    LET keep == {i \in 1..Len(s) : ~IsSpace(s[i])}
    IN  IF keep = {} THEN <<>> ELSE SubSeq(s, Min(keep), Max(keep))

\* c in s
Contains(s, c) == \E i \in 1..Len(s) : s[i] = c

\* s.rfind(c): 0-based index of the last occurrence, -1 if none
RFind(s, c) == Max({i - 1 : i \in {j \in 1..Len(s) : s[j] = c}} \cup {-1})

\* s[:k]
SliceTo(s, k) ==
    IF k >= 0 THEN SubSeq(s, 1, Min({k, Len(s)}))
    ELSE SubSeq(s, 1, Max({Len(s) + k, 0}))

DigitChar == <<"0", "1", "2", "3", "4", "5", "6", "7", "8", "9">>

RECURSIVE FmtNat(_)
FmtNat(n) == IF n < 10 THEN <<DigitChar[n + 1]>>
             ELSE FmtNat(n \div 10) \o <<DigitChar[(n % 10) + 1]>>

\* f"{n}" for an int n
FmtInt(n) == IF n < 0 THEN <<"-">> \o FmtNat(-n) ELSE FmtNat(n)

IsDigit(c) == c \in {"0", "1", "2", "3", "4", "5", "6", "7", "8", "9"}

DigitVal(c) == CHOOSE d \in 0..9 : DigitChar[d + 1] = c

RECURSIVE DigitsVal(_)
DigitsVal(ds) == IF ds = <<>> THEN 0
                 ELSE 10 * DigitsVal(SubSeq(ds, 1, Len(ds) - 1)) + DigitVal(ds[Len(ds)])

\* s.split()[0] for an s that is not all whitespace
FirstToken(s) ==
    LET t == Strip(s)
        sp == {i \in 1..Len(t) : IsSpace(t[i])}
    IN  IF sp = {} THEN t ELSE SubSeq(t, 1, Min(sp) - 1)

\* int(tok) for a token without whitespace: an optional sign and decimal
\* digits give the value, anything else raises ValueError (ok = FALSE)
ParseInt(tok) ==
    LET signed == tok # <<>> /\ tok[1] \in {"+", "-"}
        ds == IF signed THEN Tail(tok) ELSE tok
    IN  IF ds = <<>> \/ \E i \in 1..Len(ds) : ~IsDigit(ds[i])
        THEN [ok |-> FALSE, val |-> 0]
        ELSE [ok |-> TRUE,
              val |-> IF signed /\ tok[1] = "-" THEN -DigitsVal(ds) ELSE DigitsVal(ds)]

\* is_busy: int(ps.strip().split()[0]) if ps else 0, for a text ps returned by position
ParseReading(ps) ==
    IF ps = <<>> THEN [ok |-> TRUE, val |-> 0] ELSE ParseInt(FirstToken(ps))

-----------------------------------------------------------------------------
(* Transport trace *)

FlushEv == [ev |-> "flush", data |-> <<>>]
WriteEv(bytes) == [ev |-> "write", data |-> bytes]

\* what the port has seen once __init__ has run self.send("F", wait=False)
ConstructLog == <<FlushEv, WriteEv(Encode(<<"F">>) \o <<CR>>)>>

NoOp == [name |-> "none"]
NoResult == [kind |-> "none", val |-> <<>>]

\* values of self.steps_per_mm; a float is kept as its number of halves
\* (every value of the model is a multiple of 0.5, which floats hold exactly)
NoAttr == [kind |-> "unassigned", h |-> 0]
None == [kind |-> "None", h |-> 0]
Float(h) == [kind |-> "float", h |-> h]

\* a bool result, as text
PyBool(b) == IF b THEN <<"True">> ELSE <<"False">>

\* one call of send
Req(cmd, wait, block, timeout) ==
    [cmd |-> cmd, wait |-> wait, block |-> block, timeout |-> timeout, bare |-> FALSE]

\* a direct call of wait_ready (no send around it)
BareWait(timeout) ==
    [cmd |-> <<>>, wait |-> FALSE, block |-> TRUE, timeout |-> timeout, bare |-> TRUE]

cur == Head(todo)


-----------------------------------------------------------------------------
(* Variable groups *)

\* the session's attributes and its port; no step of send or wait_ready assigns them
cfg == <<impl, ready_mode, quiet_ms, ser_timeout, steps_per_mm, faulty>>
waitHist == <<wStart, rdBytes, lastPoll, lastRead, lastArr, quietSeen>>
waitLocals == <<end, buf, last_rx>>
callHist == <<ncalls, entryLog, entryReads, entryGone>>
sendHist == <<expect, asciiOnly, flushArr>>

-----------------------------------------------------------------------------
(* Control: returning from send, finishing the top-level call *)

\* the top-level call ends: kind is "ok", or names the exception raised
\* ("Timeout", "ValueError(motor)", "ValueError(direction)")
Finish(kind, v) ==
    /\ pc' = "idle"
    /\ todo' = <<>>
    /\ result' = [kind |-> kind, val |-> v]
    /\ samp' = samp

\* an exception of the given kind is raised inside send or wait_ready: it
\* reaches the caller, except in is_busy (except Exception: return False)
Raise(kind) ==
    IF op.name = "is_busy"
    THEN Finish("ok", PyBool(FALSE))
    ELSE Finish(kind, <<>>)

\* send (or libvxm's run) returns v to the method that called it
SendReturn(v) ==
    IF op.name = "is_busy"
    THEN /\ pc' = "busy_parse"
         /\ todo' = Tail(todo)
         /\ result' = result
         /\ samp' = Append(samp, v)
    ELSE IF op.name = "__init__"
    THEN /\ pc' = "ctor_attrs"
         /\ todo' = Tail(todo)
         /\ result' = result
         /\ samp' = samp
    ELSE IF Len(todo) > 1
    THEN /\ pc' = "send_flush"
         /\ todo' = Tail(todo)
         /\ result' = result
         /\ samp' = samp
    ELSE Finish("ok", IF op.name = "home" THEN <<>> ELSE v)

\* mutant of InitialBuf: the buffer is kept from the previous wait
InitialBuf_Kept(b) == b

\* wait_ready: buf = "", whatever an earlier call left in its own buf
InitialBuf(b) == <<>>

\* wait_ready: first statements (end = time.time() + timeout; buf = ""; last_rx = time.time())
EnterWait(timeout) ==
    /\ end' = now + timeout
    /\ buf' = InitialBuf(buf)
    /\ last_rx' = IF ready_mode = "char" THEN last_rx ELSE now
    /\ wStart' = now
    /\ rdBytes' = <<>>
    /\ lastPoll' = <<>>
    /\ lastRead' = now
    /\ lastArr' = now
    /\ quietSeen' = (quiet_ms <= 0)

\* no wait_ready has run in this call yet
ClearWait ==
    /\ end' = 0
    /\ buf' = <<>>
    /\ last_rx' = 0
    /\ wStart' = 0
    /\ rdBytes' = <<>>
    /\ lastPoll' = <<>>
    /\ lastRead' = 0
    /\ lastArr' = 0
    /\ quietSeen' = FALSE

\* send, after the optional immediate read left r in resp
AfterImmediate(r) ==
    IF cur.block
    THEN /\ EnterWait(cur.timeout)
         /\ pc' = "wr_loop"
         /\ UNCHANGED <<todo, result, samp, retAt, waitEnds>>
    ELSE /\ SendReturn(Strip(r))
         /\ UNCHANGED <<waitLocals, waitHist, retAt, waitEnds>>

-----------------------------------------------------------------------------
(* send *)

\* self.ser.reset_input_buffer()
(* ser.reset_input_buffer(): what the input buffer q holds afterwards *)
ResetInputBuffer_Keeps(q) == q

ResetInputBuffer(q) == <<>>

SendFlush ==
    /\ pc = "send_flush"
    /\ rx' = ResetInputBuffer(rx)
    /\ log' = Append(log, FlushEv)
    /\ expect' = expect \o <<FlushEv, WriteEv(cur.cmd \o <<CR>>)>>
    /\ asciiOnly' = (asciiOnly /\ \A i \in 1..Len(cur.cmd) : cur.cmd[i] # NonAscii)
    /\ flushArr' = arrived
    /\ pc' = "send_write"
    /\ UNCHANGED <<cfg, reads, now, wakeAt, op, todo, result, samp, resp, arrived, emitted,
                   waitLocals, waitHist, callHist, retAt, waitEnds>>

\* self.ser.write((cmd + "\r").encode("ascii", errors="ignore")); resp = ""
(* `if wait:` - the immediate capture is taken only when asked for. *)
TakesImmediate_Always(r) == TRUE

TakesImmediate(r) == r.wait

SendWrite ==
    /\ pc = "send_write"
    /\ log' = Append(log, WriteEv(Encode(cur.cmd \o <<CR>>)))
    /\ resp' = <<>>
    /\ \/ /\ TakesImmediate(cur)
          /\ pc' = "send_grace"
          /\ wakeAt' = now + GraceTicks
          /\ UNCHANGED <<todo, result, samp, waitLocals, waitHist, retAt, waitEnds>>
       \/ /\ ~TakesImmediate(cur)
          /\ AfterImmediate(<<>>)
          /\ UNCHANGED wakeAt
    /\ UNCHANGED <<cfg, rx, reads, now, op, arrived, emitted, callHist, sendHist>>

\* self.ser.write(...) raises (SerialTimeoutException, SerialException): nothing
\* was written, and send has no handler
SendWriteFails ==
    /\ pc = "send_write"
    /\ faulty
    /\ Raise("SerialException")
    /\ UNCHANGED <<cfg, rx, log, reads, now, wakeAt, op, resp, arrived, emitted,
                   waitLocals, waitHist, callHist, sendHist, retAt, waitEnds>>

\* time.sleep(0.03) is over: resp = self.ser.read(self.ser.in_waiting or 0).decode(errors="ignore")
SendImmediate ==
    /\ pc = "send_grace"
    /\ now >= wakeAt
    /\ reads' = reads + 1
    /\ rx' = <<>>
    /\ resp' = Decode(rx)
    /\ AfterImmediate(Decode(rx))
    /\ UNCHANGED <<cfg, log, now, wakeAt, op, arrived, emitted, callHist, sendHist>>

-----------------------------------------------------------------------------
(* wait_ready *)

\* mutant of ReadTimedOut: the port was opened with timeout=None
ReadTimedOut_Never(t, due) == FALSE

\* a ser.read that was due to give up at `due' and has received nothing returns
ReadTimedOut(t, due) == t >= due

\* mutant of WaitLoopCond: the loop gives up one tick early
WaitLoopCond_Early(t, e) == t + 1 < e

\* while time.time() < end
WaitLoopCond(t, e) == t < e

\* s.find(c) for an s that contains c: 0-based index of the first occurrence
Find(s, c) == Min({i - 1 : i \in {j \in 1..Len(s) : s[j] = c}} \cup {Len(s)})

\* mutant of WaitPoll: char mode cuts the buffer at the first ready character
WaitPoll_FirstSentinel(mode, b, lrx, chunk, t, q) ==
    IF mode = "char"
    THEN IF chunk # <<>>
         THEN IF Contains(chunk, ready_char)
              THEN [next |-> "return", buf |-> b \o chunk, last_rx |-> lrx,
                    val |-> Strip(SliceTo(b \o chunk, Find(b \o chunk, ready_char)))]
              ELSE [next |-> "loop", buf |-> b \o chunk, last_rx |-> lrx, val |-> <<>>]
         ELSE [next |-> "sleep", buf |-> b, last_rx |-> lrx, val |-> <<>>]
    ELSE IF chunk # <<>>
         THEN [next |-> "loop", buf |-> b \o chunk, last_rx |-> t, val |-> <<>>]
         ELSE IF t - lrx >= q
              THEN [next |-> "return", buf |-> b, last_rx |-> lrx, val |-> Strip(b)]
              ELSE [next |-> "sleep", buf |-> b, last_rx |-> lrx, val |-> <<>>]

\* One pass of the loop body of wait_ready, after the read returned `chunk' at
\* time t: what the loop does next, and the new buf and last_rx.
WaitPoll(mode, b, lrx, chunk, t, q) ==
    IF mode = "char"
    THEN IF chunk # <<>>
         THEN IF Contains(chunk, ready_char)
              THEN [next |-> "return", buf |-> b \o chunk, last_rx |-> lrx,
                    val |-> Strip(SliceTo(b \o chunk, RFind(b \o chunk, ready_char)))]
              ELSE [next |-> "loop", buf |-> b \o chunk, last_rx |-> lrx, val |-> <<>>]
         ELSE [next |-> "sleep", buf |-> b, last_rx |-> lrx, val |-> <<>>]
    ELSE IF chunk # <<>>
         THEN [next |-> "loop", buf |-> b \o chunk, last_rx |-> t, val |-> <<>>]
         ELSE IF t - lrx >= q
              THEN [next |-> "return", buf |-> b, last_rx |-> lrx, val |-> Strip(b)]
              ELSE [next |-> "sleep", buf |-> b, last_rx |-> lrx, val |-> <<>>]

\* chunk = self._read_available() returned the bytes raw; run the loop body on it
ApplyPoll(raw) ==
    LET r == WaitPoll(ready_mode, buf, last_rx, Decode(raw), now, quiet_ms)
    IN  /\ rdBytes' = rdBytes \o raw
        /\ lastPoll' = raw
        /\ lastRead' = IF raw # <<>> THEN now ELSE lastRead
        /\ buf' = r.buf
        /\ last_rx' = r.last_rx
        /\ IF r.next = "return"
           THEN /\ retAt' = now
                /\ waitEnds' = Append(waitEnds, "ready")
                /\ wakeAt' = wakeAt
                /\ IF cur.bare
                   THEN Finish("ok", r.val) /\ resp' = resp
                   ELSE /\ resp' = Strip(resp \o r.val)
                        /\ SendReturn(Strip(Strip(resp \o r.val)))
           ELSE /\ pc' = IF r.next = "loop" THEN "wr_loop" ELSE "wr_sleep"
                /\ wakeAt' = IF r.next = "loop" THEN wakeAt ELSE now + SleepTicks
                /\ UNCHANGED <<todo, result, samp, resp, retAt, waitEnds>>

\* while time.time() < end: ... ser.read(self.ser.in_waiting or 1) with bytes waiting
WaitReadAvailable ==
    /\ pc = "wr_loop"
    /\ WaitLoopCond(now, end)
    /\ rx # <<>>
    /\ reads' = reads + 1
    /\ rx' = <<>>
    /\ ApplyPoll(rx)
    /\ UNCHANGED <<cfg, log, now, op, arrived, emitted, end, wStart, lastArr, quietSeen,
                   callHist, sendHist>>

\* while time.time() < end: ... nothing waiting: ser.read(1) starts to block
WaitReadBlock ==
    /\ pc = "wr_loop"
    /\ WaitLoopCond(now, end)
    /\ rx = <<>>
    /\ reads' = reads + 1
    /\ pc' = "wr_read"
    /\ wakeAt' = now + ser_timeout
    /\ UNCHANGED <<cfg, rx, log, now, op, todo, result, samp, resp, arrived, emitted,
                   waitLocals, waitHist, callHist, sendHist, retAt, waitEnds>>

\* the blocked ser.read(1) returns: one byte, or nothing when ser.timeout has passed
WaitReadReturn ==
    /\ pc = "wr_read"
    /\ \/ /\ rx # <<>>
          /\ rx' = Tail(rx)
          /\ ApplyPoll(<<Head(rx)>>)
       \/ /\ rx = <<>>
          /\ ReadTimedOut(now, wakeAt)
          /\ rx' = rx
          /\ ApplyPoll(<<>>)
    /\ UNCHANGED <<cfg, log, reads, now, op, arrived, emitted, end, wStart, lastArr, quietSeen,
                   callHist, sendHist>>

\* time.sleep(0.01) is over
WaitWake ==
    /\ pc = "wr_sleep"
    /\ now >= wakeAt
    /\ pc' = "wr_loop"
    /\ UNCHANGED <<cfg, rx, log, reads, now, wakeAt, op, todo, result, samp, resp, arrived, emitted,
                   waitLocals, waitHist, callHist, sendHist, retAt, waitEnds>>

\* mutant of RaisesAtDeadline: no class raises, the buffer is returned
RaisesAtDeadline_Never(i) == FALSE

\* what follows the loop: vxm.py raises TimeoutError, libvxm.py has return buf.strip()
RaisesAtDeadline(i) == i = "vxm"

\* the loop condition fails
WaitTimeout ==
    /\ pc = "wr_loop"
    /\ ~WaitLoopCond(now, end)
    /\ IF RaisesAtDeadline(impl)
       THEN Raise("Timeout")
       ELSE SendReturn(Strip(buf))
    /\ waitEnds' = Append(waitEnds, "deadline")
    /\ retAt' = now
    /\ UNCHANGED <<cfg, rx, log, reads, now, wakeAt, op, resp, arrived, emitted,
                   waitLocals, waitHist, callHist, sendHist>>

-----------------------------------------------------------------------------
(* Environment: the controller and the clock *)

\* the controller emits one byte (at most n per behaviour, and none once the
\* last of the behaviour's calls has ended)
Arrive(bytes, n, calls) ==
    /\ arrived < n
    /\ pc # "idle" \/ ncalls < calls
    /\ Len(rx) < MaxRx
    /\ \E b \in bytes : rx' = Append(rx, b)
    /\ arrived' = arrived + 1
    /\ emitted' = emitted
    /\ lastArr' = now
    /\ UNCHANGED <<cfg, log, reads, now, wakeAt, op, todo, pc, result, samp, resp,
                   waitLocals, wStart, rdBytes, lastPoll, lastRead, quietSeen,
                   callHist, sendHist, retAt, waitEnds>>

\* the controller emits its next byte, the k-th being the digit k or the ready
\* character: every digit is emitted once, in increasing order
ArriveFresh(n, calls) ==
    /\ arrived < n
    /\ pc # "idle" \/ ncalls < calls
    /\ Len(rx) < MaxRx
    /\ \E b \in {DigitChar[arrived + 2], ready_char} : rx' = Append(rx, b)
    /\ arrived' = arrived + 1
    /\ emitted' = emitted
    /\ lastArr' = now
    /\ UNCHANGED <<cfg, log, reads, now, wakeAt, op, todo, pc, result, samp, resp,
                   waitLocals, wStart, rdBytes, lastPoll, lastRead, quietSeen,
                   callHist, sendHist, retAt, waitEnds>>

\* the commands written to the port so far (the F of construction is the first)
NumWrites == Len(SelectSeq(log, LAMBDA e : e.ev = "write"))

\* the controller as a process of its own, answering commands: each byte it
\* emits answers a command already written, the commands are answered in
\* order, and a byte may come any time after its command (arbitrary delay).
\* A byte is the ready character or a digit that numbers the emission.
Reply(n, calls) ==
    /\ arrived < n
    /\ pc # "idle" \/ ncalls < calls
    /\ Len(rx) < MaxRx
    /\ \E c \in 1..NumWrites, b \in {DigitChar[arrived + 2], ready_char} :
          /\ emitted # <<>> => c >= emitted[Len(emitted)].cmd
          /\ rx' = Append(rx, b)
          /\ emitted' = Append(emitted, [cmd |-> c, byte |-> b])
    /\ arrived' = arrived + 1
    /\ lastArr' = now
    /\ UNCHANGED <<cfg, log, reads, now, wakeAt, op, todo, pc, result, samp, resp,
                   waitLocals, wStart, rdBytes, lastPoll, lastRead, quietSeen,
                   callHist, sendHist, retAt, waitEnds>>

\* the program is inside time.sleep or a blocking read that is not yet due
Blocked ==
    \/ pc \in {"send_grace", "wr_sleep", "busy_sleep"} /\ now < wakeAt
    \/ pc \in {"wr_read", "rl_read"} /\ rx = <<>> /\ now < wakeAt

\* 10 ms pass
Tick ==
    /\ Blocked
    /\ now < MaxClock
    /\ now' = now + 1
    /\ quietSeen' = (quietSeen \/ (now + 1) - lastArr >= quiet_ms)
    /\ UNCHANGED <<cfg, rx, log, reads, wakeAt, op, todo, pc, result, samp, resp, arrived, emitted,
                   waitLocals, wStart, rdBytes, lastPoll, lastRead, lastArr,
                   callHist, sendHist, retAt, waitEnds>>

-----------------------------------------------------------------------------
(* Top-level calls *)

Timeouts == 0..MaxTimeout

\* commands a caller passes to send directly
RawCmds == {<<"R">>, <<"R", NonAscii>>}

Op(name, motor, timeout, block) ==
    [name |-> name, motor |-> motor, timeout |-> timeout, block |-> block]

\* a call of home, with all its arguments
HomeOp(motor, direction, speed, backoff_steps, timeout) ==
    [name |-> "home", motor |-> motor, timeout |-> timeout, block |-> TRUE,
     direction |-> direction, speed |-> speed, backoff_steps |-> backoff_steps]

\* entry of a top-level call (the n-th at most)
EnterCall(o, n) ==
    /\ pc = "idle"
    /\ op.name = "__init__" => result.kind = "ok"
    /\ ncalls < n
    /\ ncalls' = ncalls + 1
    /\ op' = o
    /\ now' = 0
    /\ entryLog' = Len(log)
    /\ entryReads' = reads
    /\ entryGone' = arrived - Len(rx)
    /\ resp' = <<>>
    /\ wakeAt' = 0
    /\ retAt' = 0
    /\ waitEnds' = <<>>
    /\ samp' = <<>>
    /\ UNCHANGED <<rx, log, reads, arrived, emitted, sendHist>>

\* entry of a call that assigns no attribute of the session
Enter(o, n) ==
    /\ EnterCall(o, n)
    /\ UNCHANGED cfg

\* the call goes on to run the sends reqs, from pc0
Start(o, reqs, pc0, n) ==
    /\ Enter(o, n)
    /\ todo' = reqs
    /\ pc' = pc0
    /\ result' = NoResult

\* the call raises before doing anything else
StartFail(o, kind, n) ==
    /\ Enter(o, n)
    /\ todo' = <<>>
    /\ pc' = "idle"
    /\ result' = [kind |-> kind, val |-> <<>>]
    /\ ClearWait

\* vxm.py: send(cmd, wait, block_until_ready, timeout)
SendOp(wait, block, timeout) ==
    [name |-> "send", motor |-> 0, timeout |-> timeout, block |-> block,
     wait |-> wait]

CallSend(timeouts, n) ==
    /\ impl = "vxm"
    /\ \E c \in RawCmds, w \in BOOLEAN, b \in BOOLEAN, t \in timeouts :
          Start(SendOp(w, b, t), <<Req(c, w, b, t)>>, "send_flush", n)
    /\ ClearWait

\* vxm.py: wait_ready(timeout)
CallWaitReady(timeouts, n) ==
    /\ impl = "vxm"
    /\ \E t \in timeouts :
          /\ Start(Op("wait_ready", 0, t, TRUE), <<BareWait(t)>>, "wr_loop", n)
          /\ end' = 0 + t
    /\ buf' = InitialBuf(buf)
    /\ last_rx' = 0
    /\ wStart' = 0
    /\ rdBytes' = <<>>
    /\ lastPoll' = <<>>
    /\ lastRead' = 0
    /\ lastArr' = 0
    /\ quietSeen' = (quiet_ms <= 0)

\* mutant of AxisOf: the table is indexed from 0
AxisOf_FromZero(motor) ==
    CASE motor = 0 -> <<"X">>
      [] motor = 1 -> <<"Y">>
      [] motor = 2 -> <<"Z">>
      [] motor = 3 -> <<"T">>
      [] OTHER -> <<>>

\* {1: "X", 2: "Y", 3: "Z", 4: "T"}.get(motor); <<>> stands for None
AxisOf(motor) ==
    CASE motor = 1 -> <<"X">>
      [] motor = 2 -> <<"Y">>
      [] motor = 3 -> <<"Z">>
      [] motor = 4 -> <<"T">>
      [] OTHER -> <<>>

Abs(n) == IF n < 0 THEN -n ELSE n

\* set_speed(motor, speed): self.send(f"S{motor}M{speed}")
SetSpeedReq(motor, speed) ==
    Req(<<"S">> \o FmtInt(motor) \o <<"M">> \o FmtInt(speed), TRUE, FALSE, DefaultTimeout)

\* move_relative(motor, steps): self.send(f"I{motor}M{steps}")
MoveRelativeReq(motor, steps) ==
    Req(<<"I">> \o FmtInt(motor) \o <<"M">> \o FmtInt(steps), TRUE, FALSE, DefaultTimeout)

\* run(block, timeout): self.send("R", block_until_ready=block, timeout=timeout)
RunReq(block, timeout) == Req(<<"R">>, TRUE, block, timeout)

\* mutant of SeekReq: the seek move has no sign for either direction
SeekReq_Unsigned(motor, direction) ==
    Req(<<"I">> \o FmtInt(motor) \o <<"M", "0">>, TRUE, FALSE, DefaultTimeout)

\* home: self.send(f"I{motor}M-0" if direction == "neg" else f"I{motor}M0")
SeekReq(motor, direction) ==
    Req(IF direction = "neg"
        THEN <<"I">> \o FmtInt(motor) \o <<"M", "-", "0">>
        ELSE <<"I">> \o FmtInt(motor) \o <<"M", "0">>,
        TRUE, FALSE, DefaultTimeout)

\* home: self.send(f"IA{motor}M-0", block_until_ready=True)
ZeroReq(motor) ==
    Req(<<"I", "A">> \o FmtInt(motor) \o <<"M", "-", "0">>, TRUE, TRUE, DefaultTimeout)

\* mutant of HomeSends: the caller's timeout is not passed on to run
HomeSends_TimeoutDropped(motor, direction, speed, backoff_steps, timeout) ==
    << SetSpeedReq(motor, speed),
       SeekReq(motor, direction),
       RunReq(TRUE, RunDefaultTimeout),
       MoveRelativeReq(motor, IF direction = "neg"
                              THEN Abs(backoff_steps) ELSE -Abs(backoff_steps)),
       RunReq(TRUE, RunDefaultTimeout),
       ZeroReq(motor) >>

\* the sends home makes, in order, once direction has passed its check
HomeSends(motor, direction, speed, backoff_steps, timeout) ==
    << SetSpeedReq(motor, speed),
       SeekReq(motor, direction),
       RunReq(TRUE, timeout),
       MoveRelativeReq(motor, IF direction = "neg"
                              THEN Abs(backoff_steps) ELSE -Abs(backoff_steps)),
       RunReq(TRUE, timeout),
       ZeroReq(motor) >>

\* vxm.py: run(block, timeout)
CallRun(timeouts, n) ==
    /\ impl = "vxm"
    /\ \E b \in BOOLEAN, t \in timeouts :
          Start(Op("run", 0, t, b), <<RunReq(b, t)>>, "send_flush", n)
    /\ ClearWait

\* vxm.py: stop(block)
CallStop(n) ==
    /\ impl = "vxm"
    /\ \E b \in BOOLEAN :
          Start(Op("stop", 0, DefaultTimeout, b),
                <<Req(<<"D">>, TRUE, b, DefaultTimeout)>>, "send_flush", n)
    /\ ClearWait

\* vxm.py: position(motor)
CallPosition(motors, n) ==
    /\ impl = "vxm"
    /\ \E m \in motors :
          IF AxisOf(m) = <<>>
          THEN StartFail(Op("position", m, DefaultTimeout, TRUE), "ValueError(motor)", n)
          ELSE /\ Start(Op("position", m, DefaultTimeout, TRUE),
                        <<Req(AxisOf(m), TRUE, TRUE, DefaultTimeout)>>, "send_flush", n)
               /\ ClearWait

\* vxm.py: list_program()
CallListProgram(n) ==
    /\ impl = "vxm"
    /\ Start(Op("list_program", 0, DefaultTimeout, TRUE),
             <<Req(<<"l", "s", "t">>, TRUE, TRUE, DefaultTimeout)>>, "send_flush", n)
    /\ ClearWait

\* vxm.py: home(motor, direction, speed, backoff_steps, timeout)
CallHome(motors, dirs, speeds, backoffs, timeouts, n) ==
    /\ impl = "vxm"
    /\ \E m \in motors, d \in dirs, sp \in speeds, bo \in backoffs, t \in timeouts :
          IF d \notin {"neg", "pos"}
          THEN StartFail(HomeOp(m, d, sp, bo, t), "ValueError(direction)", n)
          ELSE /\ Start(HomeOp(m, d, sp, bo, t), HomeSends(m, d, sp, bo, t),
                        "send_flush", n)
               /\ ClearWait

\* libvxm.py: send(cmd, wait)
CallLibSend(n) ==
    /\ impl = "libvxm"
    /\ \E c \in RawCmds, w \in BOOLEAN :
          Start(SendOp(w, FALSE, 0), <<Req(c, w, FALSE, 0)>>, "send_flush", n)
    /\ ClearWait

\* libvxm.py: position_raw(motor, line_timeout)
CallPositionRaw(motors, timeouts, n) ==
    /\ impl = "libvxm"
    /\ \E m \in motors, t \in timeouts :
          IF AxisOf(m) = <<>>
          THEN StartFail(Op("position_raw", m, t, FALSE), "ValueError(motor)", n)
          ELSE /\ Start(Op("position_raw", m, t, FALSE), <<>>, "pr_flush", n)
               /\ ClearWait

\* vxm.py: is_busy(motor, interval); position(motor) raises inside the try
\* for a motor without axis letter
CallIsBusy(motors, intervals, n) ==
    /\ impl = "vxm"
    /\ \E m \in motors, iv \in intervals :
          LET o == [name |-> "is_busy", motor |-> m, timeout |-> DefaultTimeout,
                    block |-> TRUE, interval |-> iv]
          IN  IF AxisOf(m) = <<>>
              THEN /\ Enter(o, n)
                   /\ todo' = <<>>
                   /\ pc' = "idle"
                   /\ result' = [kind |-> "ok", val |-> PyBool(FALSE)]
              ELSE Start(o, << Req(AxisOf(m), TRUE, TRUE, DefaultTimeout),
                               Req(AxisOf(m), TRUE, TRUE, DefaultTimeout) >>,
                         "send_flush", n)
    /\ ClearWait

\* mutant of Moved: only an increase of the position counts
Moved_Forward(p1, p2) == p2 > p1

\* is_busy: return p1 != p2
Moved(p1, p2) == p1 # p2

\* is_busy: position has returned; p = int(...) if ps else 0, then either
\* time.sleep(interval) or return p1 != p2; a ValueError of int is caught
BusyParse ==
    /\ pc = "busy_parse"
    /\ LET p == ParseReading(samp[Len(samp)])
       IN  IF ~p.ok
           THEN Finish("ok", PyBool(FALSE)) /\ wakeAt' = wakeAt
           ELSE IF todo # <<>>
           THEN /\ pc' = "busy_sleep"
                /\ wakeAt' = now + op.interval
                /\ UNCHANGED <<todo, result, samp>>
           ELSE /\ Finish("ok", PyBool(Moved(ParseReading(samp[1]).val, p.val)))
                /\ wakeAt' = wakeAt
    /\ UNCHANGED <<cfg, rx, log, reads, now, op, resp, arrived, emitted,
                   waitLocals, waitHist, callHist, sendHist, retAt, waitEnds>>

\* is_busy: time.sleep(interval) is over; the second position call starts
BusyWake ==
    /\ pc = "busy_sleep"
    /\ now >= wakeAt
    /\ pc' = "send_flush"
    /\ UNCHANGED <<cfg, rx, log, reads, now, wakeAt, op, todo, result, samp, resp, arrived, emitted,
                   waitLocals, waitHist, callHist, sendHist, retAt, waitEnds>>

BusySteps ==
    \/ BusyParse
    \/ BusyWake

-----------------------------------------------------------------------------
(* Units: set_scale, mm_to_steps, move_mm (the same code in both classes) *)

\* round(num / den) for den > 0: to the nearest integer, a tie to the even one
Round(num, den) ==
    LET fl == num \div den
        r == num - fl * den
    IN  IF 2 * r < den THEN fl
        ELSE IF 2 * r > den THEN fl + 1
        ELSE IF fl % 2 = 0 THEN fl ELSE fl + 1

\* int(round(mm * self.steps_per_mm)); mm and the scale in halves
MmToSteps(mmh, spm) == Round(mmh * spm.h, 4)

\* mutant of NotConfigured: the check is missing
NotConfigured_Never(spm) == FALSE

\* if self.steps_per_mm is None
NotConfigured(spm) == spm = None

\* arguments of set_scale: numbers (in halves), and None
ScaleArg(h) == [kind |-> "float", h |-> h]
NoneArg == [kind |-> "None", h |-> 0]

\* mutant of ScaleAfter: a failed set_scale leaves the scale unset
ScaleAfter_ClearsOnError(spm, x) == IF x = NoneArg THEN None ELSE Float(x.h)

\* self.steps_per_mm = float(steps_per_mm): float(None) raises TypeError
\* before the assignment
ScaleAfter(spm, x) == IF x = NoneArg THEN spm ELSE Float(x.h)

\* a call that does no I/O and returns at once with res
QuickCall(o, res) ==
    /\ pc = "idle"
    /\ op.name = "__init__" => result.kind = "ok"
    /\ op' = o
    /\ result' = res
    /\ now' = 0
    /\ entryLog' = Len(log)
    /\ entryReads' = reads
    /\ entryGone' = arrived - Len(rx)
    /\ resp' = <<>>
    /\ wakeAt' = 0
    /\ retAt' = 0
    /\ waitEnds' = <<>>
    /\ samp' = <<>>
    /\ ClearWait
    /\ UNCHANGED <<impl, ready_mode, quiet_ms, ser_timeout, faulty,
                   rx, log, reads, arrived, emitted, sendHist, ncalls, todo, pc>>

\* set_scale(steps_per_mm)
CallSetScale(args) ==
    \E x \in args :
        /\ QuickCall([name |-> "set_scale", arg |-> x],
                     [kind |-> IF x = NoneArg THEN "TypeError" ELSE "ok", val |-> <<>>])
        /\ steps_per_mm' = ScaleAfter(steps_per_mm, x)

\* mm_to_steps(mm)
CallMmToSteps(mms) ==
    \E mm \in mms :
        /\ QuickCall([name |-> "mm_to_steps", mm |-> mm],
                     IF NotConfigured(steps_per_mm)
                     THEN [kind |-> "RuntimeError", val |-> <<>>]
                     ELSE [kind |-> "ok", val |-> FmtInt(MmToSteps(mm, steps_per_mm))])
        /\ steps_per_mm' = steps_per_mm

\* move_mm(motor, mm): steps = self.mm_to_steps(mm); self.move_relative(motor, steps)
CallMoveMm(motors, mms, n) ==
    /\ \E m \in motors, mm \in mms :
          LET o == [name |-> "move_mm", motor |-> m, mm |-> mm,
                    timeout |-> DefaultTimeout, block |-> FALSE]
          IN  IF NotConfigured(steps_per_mm)
              THEN /\ Enter(o, n)
                   /\ todo' = <<>>
                   /\ pc' = "idle"
                   /\ result' = [kind |-> "RuntimeError", val |-> <<>>]
              ELSE Start(o, <<MoveRelativeReq(m, MmToSteps(mm, steps_per_mm))>>,
                         "send_flush", n)
    /\ ClearWait

-----------------------------------------------------------------------------
(* Construction *)

\* __init__ as a call: self.send("F", wait=False) is its one send
CtorOp == [name |-> "__init__", motor |-> 0, timeout |-> DefaultTimeout, block |-> FALSE]

\* __init__ after the send: self.steps_per_mm = None (and, in vxm.py, the
\* ready configuration); the session exists
CtorAttrs ==
    /\ pc = "ctor_attrs"
    /\ steps_per_mm' = None
    /\ pc' = "idle"
    /\ result' = [kind |-> "ok", val |-> <<>>]
    /\ UNCHANGED <<impl, ready_mode, quiet_ms, ser_timeout, faulty, rx, log, reads, now,
                   wakeAt, op, todo, samp, resp, arrived, emitted, waitLocals, waitHist,
                   callHist, sendHist, retAt, waitEnds>>

\* libvxm.py: the sends home makes, in order; run is send("R", wait=False)
\* followed by _wait_ready_silence(timeout=120.0)
LibHomeSends(motor, direction, speed, backoff_steps) ==
    << SetSpeedReq(motor, speed),
       Req(SeekReq(motor, direction).cmd, FALSE, FALSE, DefaultTimeout),
       Req(<<"R">>, FALSE, TRUE, RunDefaultTimeout),
       MoveRelativeReq(motor, IF direction = "neg"
                              THEN Abs(backoff_steps) ELSE -Abs(backoff_steps)),
       Req(<<"R">>, FALSE, TRUE, RunDefaultTimeout),
       Req(ZeroReq(motor).cmd, TRUE, FALSE, DefaultTimeout) >>

\* libvxm.py: home(motor, direction, speed, backoff_steps)
CallLibHome(motors, dirs, speeds, backoffs, n) ==
    /\ impl = "libvxm"
    /\ \E m \in motors, d \in dirs, sp \in speeds, bo \in backoffs :
          Start(HomeOp(m, d, sp, bo, RunDefaultTimeout),
                LibHomeSends(m, d, sp, bo), "send_flush", n)
    /\ ClearWait

\* libvxm.py: run / stop / kill / clear (block, timeout):
\* self.send(c, wait=False); self._wait_ready_silence(timeout=timeout) if block else ""
CallLibCmd(timeouts, n) ==
    /\ impl = "libvxm"
    /\ \E c \in {"R", "D", "K", "C"}, b \in BOOLEAN, t \in timeouts :
          Start(Op(CASE c = "R" -> "run" [] c = "D" -> "stop"
                     [] c = "K" -> "kill" [] OTHER -> "clear", 0, t, b),
                <<Req(<<c>>, FALSE, b, t)>>, "send_flush", n)
    /\ ClearWait

-----------------------------------------------------------------------------
(* libvxm.py: position_raw and _read_line *)

\* self.ser.reset_input_buffer()
RawFlush ==
    /\ pc = "pr_flush"
    /\ rx' = ResetInputBuffer(rx)
    /\ log' = Append(log, FlushEv)
    /\ expect' = Append(expect, FlushEv)
    /\ flushArr' = arrived
    /\ pc' = "pr_write"
    /\ UNCHANGED <<cfg, reads, now, wakeAt, op, todo, result, samp, resp, arrived, emitted,
                   waitLocals, waitHist, callHist, asciiOnly, retAt, waitEnds>>

\* self.ser.write((axis + "\r").encode("ascii")); _read_line: end = time.time() + timeout; buf = ""
RawWrite ==
    /\ pc = "pr_write"
    /\ log' = Append(log, WriteEv(AxisOf(op.motor) \o <<CR>>))
    /\ expect' = Append(expect, WriteEv(AxisOf(op.motor) \o <<CR>>))
    /\ end' = now + op.timeout
    /\ buf' = <<>>
    /\ pc' = "rl_loop"
    /\ UNCHANGED <<cfg, rx, reads, now, wakeAt, op, todo, result, samp, resp, arrived, emitted,
                   last_rx, waitHist, callHist, asciiOnly, flushArr, retAt, waitEnds>>

\* while time.time() < end: b = self.ser.read(1) starts
LineReadStart ==
    /\ pc = "rl_loop"
    /\ now < end
    /\ reads' = reads + 1
    /\ pc' = "rl_read"
    /\ wakeAt' = now + ser_timeout
    /\ UNCHANGED <<cfg, rx, log, now, op, todo, result, samp, resp, arrived, emitted,
                   waitLocals, waitHist, callHist, sendHist, retAt, waitEnds>>

\* the read returns a byte: end of line (drain the rest, return), or one more character
LineReadByte ==
    /\ pc = "rl_read"
    /\ rx # <<>>
    /\ IF Decode(<<Head(rx)>>) \in {<<CR>>, <<"\n">>}
       THEN /\ reads' = reads + 1
            /\ rx' = <<>>
            /\ buf' = buf
            /\ Finish("ok", Strip(buf))
       ELSE /\ reads' = reads
            /\ rx' = Tail(rx)
            /\ buf' = buf \o Decode(<<Head(rx)>>)
            /\ pc' = "rl_loop"
            /\ UNCHANGED <<todo, result, samp>>
    /\ UNCHANGED <<cfg, log, now, wakeAt, op, resp, arrived, emitted, end, last_rx,
                   waitHist, callHist, sendHist, retAt, waitEnds>>

\* the read returns nothing after ser.timeout: continue
LineReadEmpty ==
    /\ pc = "rl_read"
    /\ rx = <<>>
    /\ ReadTimedOut(now, wakeAt)
    /\ pc' = "rl_loop"
    /\ UNCHANGED <<cfg, rx, log, reads, now, wakeAt, op, todo, result, samp, resp, arrived, emitted,
                   waitLocals, waitHist, callHist, sendHist, retAt, waitEnds>>

\* the loop condition fails: return buf.strip()
LineDeadline ==
    /\ pc = "rl_loop"
    /\ ~(now < end)
    /\ Finish("ok", Strip(buf))
    /\ UNCHANGED <<cfg, rx, log, reads, now, wakeAt, op, resp, arrived, emitted,
                   waitLocals, waitHist, callHist, sendHist, retAt, waitEnds>>

LineSteps ==
    \/ RawFlush
    \/ RawWrite
    \/ LineReadStart
    \/ LineReadByte
    \/ LineReadEmpty
    \/ LineDeadline

-----------------------------------------------------------------------------

\* the constructor's arguments and the port it opened; the port's writes may
\* fail (faults = {TRUE}) or never do ({FALSE})
InitConfig(impls, modes, faults) ==
    /\ impl \in impls
    /\ ready_mode \in modes
    /\ quiet_ms \in 0..MaxQuiet
    /\ impl = "libvxm" => (ready_mode = "silence" /\ quiet_ms = MaxQuiet)
    /\ ser_timeout \in 1..MaxSerTimeout
    /\ faulty \in faults

\* nothing received, nothing read, no call made yet
InitLocals ==
    /\ rx = <<>>
    /\ reads = 0
    /\ now = 0
    /\ resp = <<>>
    /\ end = 0
    /\ buf = <<>>
    /\ last_rx = 0
    /\ wakeAt = 0
    /\ result = NoResult
    /\ ncalls = 0
    /\ arrived = 0
    /\ emitted = <<>>
    /\ flushArr = 0
    /\ entryLog = 0
    /\ entryReads = 0
    /\ entryGone = 0
    /\ wStart = 0
    /\ rdBytes = <<>>
    /\ lastPoll = <<>>
    /\ lastRead = 0
    /\ retAt = 0
    /\ lastArr = 0
    /\ quietSeen = FALSE
    /\ asciiOnly = TRUE
    /\ samp = <<>>
    /\ waitEnds = <<>>

\* a session whose construction has succeeded
InitPort(impls, modes, faults) ==
    /\ InitConfig(impls, modes, faults)
    /\ InitLocals
    /\ log = ConstructLog
    /\ expect = ConstructLog
    /\ op = NoOp
    /\ todo = <<>>
    /\ pc = "idle"
    /\ steps_per_mm = None

\* the port is open, __init__ is about to run self.send("F", wait=False)
InitNew(impls, modes, faults) ==
    /\ InitConfig(impls, modes, faults)
    /\ InitLocals
    /\ log = <<>>
    /\ expect = <<>>
    /\ op = CtorOp
    /\ todo = <<Req(<<"F">>, FALSE, FALSE, DefaultTimeout)>>
    /\ pc = "send_flush"
    /\ steps_per_mm = NoAttr

\* a constructed session on a sound port
InitSession(impls, modes) == InitPort(impls, modes, {FALSE})

\* the steps of send and wait_ready
SendSteps ==
    \/ SendFlush
    \/ SendWrite
    \/ SendImmediate

WaitSteps ==
    \/ WaitReadAvailable
    \/ WaitReadBlock
    \/ WaitReadReturn
    \/ WaitWake
    \/ WaitTimeout

(* One call of wait_ready or send on a vxm.py session, any controller *)

InitWait == InitSession({"vxm"}, {"char", "silence"})

NextWait ==
    \/ CallSend(Timeouts, 1)
    \/ CallWaitReady(Timeouts, 1)
    \/ SendSteps
    \/ WaitSteps
    \/ Arrive(Bytes, MaxArrive, 1)
    \/ Tick

SpecWait == InitWait /\ [][NextWait]_vars

(* One call of any operation, on a session of either class *)

Motors == 0..5

Init == InitSession({"vxm", "libvxm"}, {"char", "silence"})

Next ==
    \/ CallSend({0, MaxTimeout}, 1)
    \/ CallWaitReady({0, MaxTimeout}, 1)
    \/ CallRun({0, MaxTimeout}, 1)
    \/ CallStop(1)
    \/ CallPosition(Motors, 1)
    \/ CallListProgram(1)
    \/ CallHome({1, 5}, {"neg", "pos", "up"}, {500}, {20}, {0, 1, MaxTimeout}, 1)
    \/ CallLibSend(1)
    \/ CallPositionRaw(Motors, {0, MaxTimeout}, 1)
    \/ SendSteps
    \/ WaitSteps
    \/ LineSteps
    \/ Arrive(Bytes, IoArrive, 1)
    \/ Tick

Spec == Init /\ [][Next]_vars

\* the program's own steps
Steps == SendSteps \/ WaitSteps \/ LineSteps

(* One call of a blocking operation of vxm.py, with the scheduling the code
   relies on: the interpreter goes on to the next statement, and the clock
   advances while the program sleeps or waits in a read. *)

InitLive == InitSession({"vxm"}, {"char", "silence"})

NextLive ==
    \/ CallSend({0, MaxTimeout}, 1)
    \/ CallRun({0, MaxTimeout}, 1)
    \/ CallStop(1)
    \/ CallPosition(Motors, 1)
    \/ CallListProgram(1)
    \/ CallHome({1}, {"neg", "pos", "up"}, {500}, {20}, {0, MaxTimeout}, 1)
    \/ SendSteps
    \/ WaitSteps
    \/ Arrive({ready_char, "1"}, IoArrive, 1)
    \/ Tick

SpecLive == InitLive /\ [][NextLive]_vars /\ WF_vars(Steps) /\ WF_vars(Tick)

(* Two send calls in a row, on a session of either class *)

NextSeq ==
    \/ CallSend({0, 1}, 2)
    \/ CallLibSend(2)
    \/ SendSteps
    \/ WaitSteps
    \/ Arrive(Bytes, IoArrive, 2)
    \/ Tick

SpecSeq == Init /\ [][NextSeq]_vars

(* One call of home, or of a libvxm.py command that may block, on a session of
   either class; the port may be one whose writes fail *)

HomeArrive == 3    \* bytes the controller emits during a behaviour of a home call

InitHome == InitPort({"vxm", "libvxm"}, {"char", "silence"}, BOOLEAN)

NextHome ==
    \/ CallHome({1}, {"neg", "pos"}, {500}, {-20, 0, 20}, {2}, 1)
    \/ CallLibHome({1}, {"neg", "pos"}, {500}, {-20, 0, 20}, 1)
    \/ CallLibCmd({2}, 1)
    \/ SendSteps
    \/ SendWriteFails
    \/ WaitSteps
    \/ Arrive({ready_char, "1"}, HomeArrive, 1)
    \/ Tick

SpecHome == InitHome /\ [][NextHome]_vars

(* A session from its construction on: __init__, then up to two calls that
   use the port, and any number of set_scale and mm_to_steps calls *)

SessionArrive == 2  \* bytes the controller emits during a behaviour of a session

\* halves: 1.0, 40.0
Scales == {ScaleArg(2), ScaleArg(80)}

\* one port setting (ser.timeout = 10 ms) and one quiet window stand for all
InitSessionNew ==
    /\ InitNew({"vxm", "libvxm"}, {"char", "silence"}, BOOLEAN)
    /\ ser_timeout = 1
    /\ quiet_ms = MaxQuiet

NextSession ==
    \/ CtorAttrs
    \/ CallSetScale(Scales \cup {NoneArg})
    \/ CallMmToSteps({5, -5})
    \/ CallMoveMm({1}, {5}, 2)
    \/ CallRun({MaxTimeout}, 2)
    \/ CallPosition({1, 5}, 2)
    \/ CallHome({1}, {"neg"}, {500}, {20}, {1}, 2)
    \/ CallIsBusy({1}, {0}, 2)
    \/ SendSteps
    \/ SendWriteFails
    \/ WaitSteps
    \/ BusySteps
    \/ Arrive({"1", ready_char}, SessionArrive, 2)
    \/ Tick

SpecSession == InitSessionNew /\ [][NextSession]_vars

(* Two calls in a row, each wait_ready or send, on a vxm.py session, with a
   controller whose bytes can be told apart *)

TwiceArrive == 3   \* bytes the controller emits during a behaviour of two calls

NextTwice ==
    \/ CallSend({1, MaxTimeout}, 2)
    \/ CallWaitReady({1, MaxTimeout}, 2)
    \/ SendSteps
    \/ WaitSteps
    \/ ArriveFresh(TwiceArrive, 2)
    \/ Tick

SpecTwice == InitWait /\ [][NextTwice]_vars

(* One call of send, then possibly one more, against a controller that
   answers the commands written to it. *)
ReplyArrive == 2   \* bytes the answering controller emits during a behaviour

NextReply ==
    \/ CallSend({1, MaxTimeout}, 2)
    \/ SendSteps
    \/ WaitSteps
    \/ Reply(ReplyArrive, 2)
    \/ Tick

SpecReply == InitWait /\ [][NextReply]_vars

(* One call of home against the answering controller. *)
NextReplyHome ==
    \/ CallHome({1}, {"neg"}, {500}, {20}, {2}, 1)
    \/ SendSteps
    \/ WaitSteps
    \/ Reply(ReplyArrive, 1)
    \/ Tick

SpecReplyHome == InitWait /\ [][NextReplyHome]_vars

(* One call of is_busy on a vxm.py session *)

BusyArrive == 4    \* bytes the controller emits during a behaviour of an is_busy call

InitBusy == InitSession({"vxm"}, {"char", "silence"})

NextBusy ==
    \/ CallIsBusy({1, 5}, {0, 2}, 1)
    \/ SendSteps
    \/ WaitSteps
    \/ BusySteps
    \/ Arrive({"1", "X", ready_char}, BusyArrive, 1)
    \/ Tick

SpecBusy == InitBusy /\ [][NextBusy]_vars

-----------------------------------------------------------------------------
(* Claims about wait_ready *)

\* the call in progress, or just finished, runs wait_ready
WaitCall == op.name \in {"wait_ready", "send"} /\ op.block

\* inside the polling loop of wait_ready
InWait == pc \in {"wr_loop", "wr_read", "wr_sleep"}

\* wait_ready has returned or raised, and with it the call
WaitEnded == pc = "idle" /\ WaitCall /\ result.kind # "none"

\* a direct wait_ready call has returned or raised
BareEnded == pc = "idle" /\ op.name = "wait_ready" /\ result.kind # "none"

\* the text before the last c of s (s contains c)
BeforeLast(s, c) == SubSeq(s, 1, Max({i \in 1..Len(s) : s[i] = c}) - 1)

\* C3: in char mode the text returned by wait_ready, and by send with
\* block_until_ready, never contains the ready character.
C3_NoSentinelInResult ==
    (ready_mode = "char" /\ WaitEnded /\ result.kind = "ok")
        => ~Contains(result.val, ready_char)

\* C4: in char mode the loop never goes on once a read has delivered the ready
\* character: the call returns at that poll, without Timeout, and wait_ready
\* returns the trimmed text before the last ready character read; what
\* followed it in the same read is dropped.
C4_ReturnAtSentinel ==
    ready_mode = "char" =>
        /\ InWait => ~Contains(rdBytes, ready_char)
        /\ (WaitEnded /\ Contains(rdBytes, ready_char)) =>
              /\ result.kind = "ok"
              /\ Contains(lastPoll, ready_char)
        /\ (BareEnded /\ Contains(rdBytes, ready_char)) =>
              result.val = Strip(BeforeLast(Decode(rdBytes), ready_char))

\* C4 witness: "1" was read, then "^1" in one read; "1" is returned.
C4_Witness ==
    /\ ready_mode = "char"
    /\ BareEnded
    /\ result.kind = "ok"
    /\ result.val = <<"1">>
    /\ rdBytes = <<"1", ready_char, "1">>
    /\ lastPoll = <<ready_char, "1">>

\* C5: in char mode a wait that read no ready character ends in Timeout, the
\* Timeout is raised no earlier than timeout after the entry of wait_ready,
\* and nothing of the buffer is returned with it.
C5_TimeoutAtDeadline ==
    (ready_mode = "char" /\ WaitEnded) =>
        /\ ~Contains(rdBytes, ready_char) => result.kind = "Timeout"
        /\ result.kind = "Timeout" =>
              /\ retAt >= wStart + op.timeout
              /\ result.val = <<>>

\* C5 witness: a Timeout raised with text in the buffer, after a positive timeout.
C5_Witness ==
    /\ ready_mode = "char"
    /\ WaitEnded
    /\ result.kind = "Timeout"
    /\ op.timeout > 0
    /\ buf # <<>>

\* C6: in silence mode wait_ready returns only at a poll that read no bytes,
\* quiet_ms or more after the last byte was read (or after entry), and returns
\* the trimmed concatenation of every byte read.
C6_QuietReturn ==
    (ready_mode = "silence" /\ BareEnded /\ result.kind = "ok") =>
        /\ lastPoll = <<>>
        /\ retAt - lastRead >= quiet_ms
        /\ result.val = Strip(rdBytes)

\* C7: in silence mode, when the controller never left a gap of quiet_ms
\* between bytes during the wait, wait_ready returns no result: it raises
\* Timeout, at or after the deadline.
C7_BusyStreamTimesOut ==
    (ready_mode = "silence" /\ WaitEnded /\ ~quietSeen) =>
        /\ result.kind = "Timeout"
        /\ retAt >= wStart + op.timeout

-----------------------------------------------------------------------------
(* Claims about motor validation, framing and timeouts *)

ValidMotors == {1, 2, 3, 4}
AxisLetters == <<"X", "Y", "Z", "T">>

\* the part of the transport trace the current call has produced
CallLog == SubSeq(log, entryLog + 1, Len(log))

\* C1: home with a motor outside {1,2,3,4} fails with a ValueError and the
\* transport sees no write from that call.
C1_HomeRejectsMotor ==
    (op.name = "home" /\ op.motor \notin ValidMotors) =>
        /\ \A i \in 1..Len(CallLog) : CallLog[i].ev # "write"
        /\ pc = "idle" => result.kind \in {"ValueError(motor)", "ValueError(direction)"}

\* C2: position and position_raw with a motor outside {1,2,3,4} fail with the
\* invalid-motor error without any flush, write or read; with a motor in
\* {1,2,3,4} the one command they write is the axis letter X, Y, Z, T.
C2_PositionValidatesMotor ==
    op.name \in {"position", "position_raw"} =>
        /\ op.motor \notin ValidMotors =>
              /\ pc = "idle"
              /\ result.kind = "ValueError(motor)"
              /\ CallLog = <<>>
              /\ reads = entryReads
        /\ op.motor \in ValidMotors =>
              /\ result.kind # "ValueError(motor)"
              /\ CallLog \in {<<>>, <<FlushEv>>,
                              <<FlushEv, WriteEv(<<AxisLetters[op.motor], CR>>)>>}
              /\ pc = "idle" => Len(CallLog) = 2

\* C2 witness: position(5) has raised while a byte was waiting in the port.
C2_Witness ==
    /\ op.name = "position"
    /\ op.motor = 5
    /\ pc = "idle"
    /\ result.kind = "ValueError(motor)"
    /\ rx # <<>>

\* C8: every blocking operation, once called, eventually returns or raises.
C8_Terminates == []<>(pc = "idle")

\* C8 witness: a home call has run to its end with every wait returning.
C8_Witness ==
    /\ op.name = "home"
    /\ pc = "idle"
    /\ result.kind = "ok"
    /\ Len(CallLog) = 12

\* one pass of a polling loop: one read that waits ser.timeout, one sleep
PollInterval == ser_timeout + SleepTicks

\* C9: home(timeout=T) ends within T plus one poll interval of its entry
\* (the fixed 30 ms grace of each of its six sends is granted on top).
C9_HomeBoundedByTimeout ==
    op.name = "home" => now <= op.timeout + PollInterval + 6 * GraceTicks

\* C9 amended: the timeout bounds each wait of home separately.  Each of the
\* two run steps ends within T plus one poll interval of the entry of its
\* wait, the zero-set step within send's default timeout plus one poll
\* interval, and home as a whole within the sum of these and the six grace
\* periods.
C9_HomeStepsBounded ==
    op.name = "home" =>
        /\ InWait =>
              /\ cur.timeout = IF Len(todo) = 1 THEN DefaultTimeout ELSE op.timeout
              /\ now <= wStart + cur.timeout + PollInterval
        /\ now <= 6 * GraceTicks + 2 * op.timeout + DefaultTimeout + 3 * PollInterval

\* C9 witness: a home call that succeeded later than T, a poll interval and
\* the six grace periods after its entry.
C9_Witness ==
    /\ op.name = "home"
    /\ pc = "idle"
    /\ result.kind = "ok"
    /\ now > op.timeout + PollInterval + 6 * GraceTicks

\* C10: as long as every command passed to send was ASCII, the transport has
\* seen, for each send call in order, one flush and then one write of the
\* command followed by one carriage return, and nothing else.
C10_FlushThenWrite ==
    asciiOnly =>
        IF pc = "send_write"
        THEN log = SubSeq(expect, 1, Len(expect) - 1)
        ELSE log = expect

\* C10 witness: two send calls have returned, after the one of __init__.
C10_Witness ==
    /\ asciiOnly
    /\ ncalls = 2
    /\ pc = "idle"
    /\ Len(log) = 6
    /\ log[4].data = <<"R", CR>>
    /\ log[6].data = <<"R", CR>>

-----------------------------------------------------------------------------
(* Claims about home *)

\* f"I{motor}M-0" and f"I{motor}M0": the two limit-seek commands
SeekNeg(motor) == <<"I">> \o FmtInt(motor) \o <<"M", "-", "0">>
SeekPos(motor) == <<"I">> \o FmtInt(motor) \o <<"M", "0">>

\* the commands the homing sequence is to issue for the call o, in order;
\* the backoff move carries the signed step count
HomingCommands(o) ==
    << <<"S">> \o FmtInt(o.motor) \o <<"M">> \o FmtInt(o.speed),
       IF o.direction = "neg" THEN SeekNeg(o.motor) ELSE SeekPos(o.motor),
       <<"R">>,
       <<"I">> \o FmtInt(o.motor) \o <<"M">>
           \o FmtInt(IF o.direction = "neg" THEN Abs(o.backoff_steps)
                                            ELSE -Abs(o.backoff_steps)),
       <<"R">>,
       <<"I", "A">> \o FmtInt(o.motor) \o <<"M", "-", "0">> >>

\* the transport trace of these commands: each is flushed for, then written with CR
HomingTrace(o) ==
    [i \in 1..12 |-> IF i % 2 = 1 THEN FlushEv
                     ELSE WriteEv(HomingCommands(o)[i \div 2] \o <<CR>>)]

IsPrefix(s, t) == Len(s) <= Len(t) /\ s = SubSeq(t, 1, Len(s))

VxmHome == impl = "vxm" /\ op.name = "home" /\ op.direction \in {"neg", "pos"}

\* C11: a home call of vxm.py writes the homing commands in their order and
\* nothing else; the whole sequence when it succeeds.  The backoff move is
\* written only once the first run's wait has returned, the zero-set command
\* only once the second run's wait has returned as well.
C11_HomeSequence ==
    VxmHome =>
        /\ IsPrefix(CallLog, HomingTrace(op))
        /\ (pc = "idle" /\ result.kind = "ok") => CallLog = HomingTrace(op)
        /\ Len(CallLog) >= 8 => (Len(waitEnds) >= 1 /\ waitEnds[1] = "ready")
        /\ Len(CallLog) >= 12 => (Len(waitEnds) >= 2 /\ waitEnds[2] = "ready")

\* C11 witness: a positive-direction home has succeeded on ready characters.
C11_Witness ==
    /\ VxmHome
    /\ ready_mode = "char"
    /\ op.direction = "pos"
    /\ pc = "idle"
    /\ result.kind = "ok"
    /\ waitEnds = <<"ready", "ready", "ready">>
    /\ CallLog[4].data = <<"I", "1", "M", "0", CR>>
    /\ CallLog[12].data = <<"I", "A", "1", "M", "-", "0", CR>>

\* C12: the backoff move home writes is a relative move of |backoff_steps|
\* steps, with '-' for direction pos and without for direction neg, and it is
\* never one of the two limit-seek commands.
C12_BackoffAwayFromLimit ==
    (op.name = "home" /\ Len(CallLog) >= 8) =>
        /\ CallLog[8].data =
              <<"I">> \o FmtInt(op.motor) \o <<"M">>
                  \o (IF op.direction = "pos" THEN <<"-">> ELSE <<>>)
                  \o FmtNat(Abs(op.backoff_steps)) \o <<CR>>
        /\ CallLog[8].data \notin {SeekNeg(op.motor) \o <<CR>>, SeekPos(op.motor) \o <<CR>>}

\* C13: in vxm.py, a wait of home that ends at its deadline ends the call with
\* Timeout, and a write that raises ends it with that error; nothing of the
\* sequence is written after either (after the seek run: no backoff move, no
\* second R, no zero-set).
C13_HomeAbortsOnError ==
    VxmHome =>
        /\ (\E i \in 1..Len(waitEnds) : waitEnds[i] = "deadline") =>
              /\ pc = "idle"
              /\ todo = <<>>
              /\ result.kind = "Timeout"
              /\ Len(CallLog) = (CASE Len(waitEnds) = 1 -> 6
                                   [] Len(waitEnds) = 2 -> 10
                                   [] OTHER -> 12)
        /\ result.kind = "SerialException" =>
              /\ pc = "idle"
              /\ todo = <<>>
              /\ Len(CallLog) % 2 = 1
              /\ IsPrefix(CallLog, HomingTrace(op))

\* C13 witness: the seek run has timed out after a positive timeout; the trace
\* of the call ends with the first R.
C13_Witness ==
    /\ VxmHome
    /\ op.timeout > 0
    /\ pc = "idle"
    /\ result.kind = "Timeout"
    /\ waitEnds = <<"deadline">>
    /\ Len(CallLog) = 6
    /\ CallLog[6].data = <<"R", CR>>

\* C14: in libvxm.py, an operation one of whose waits ended at the deadline
\* has failed with Timeout, and has written nothing since.
C14_LibDeadlineFails ==
    (impl = "libvxm" /\ \E i \in 1..Len(waitEnds) : waitEnds[i] = "deadline") =>
        /\ pc = "idle"
        /\ result.kind = "Timeout"

-----------------------------------------------------------------------------
(* Claims about is_busy *)

\* an is_busy call has ended
BusyEnded == op.name = "is_busy" /\ pc = "idle" /\ result.kind # "none"

\* the position commands the call has written
PosWrites == SelectSeq(CallLog, LAMBDA e : e.ev = "write")

\* the text holds no integer at all: it is empty, or has no digit
NoInteger(s) == \A i \in 1..Len(s) : ~IsDigit(s[i])

\* the reading as a position: its integer, 0 when it holds none
AsPosition(s) == IF NoInteger(s) THEN 0 ELSE ParseReading(s).val

\* empty, or an integer possibly followed by other words
IntegerReading(s) == s = <<>> \/ ParseReading(s).ok

C15_WitnessFailed ==
    /\ BusyEnded
    /\ op.motor = 1
    /\ waitEnds = <<"deadline">>
    /\ Len(PosWrites) = 1
    /\ result = [kind |-> "ok", val |-> PyBool(FALSE)]

\* C16: when one of the two readings holds no integer (empty, or letters
\* only), it counts as position 0: the second read is still made, and the
\* result is true exactly when the other reading is a non-zero integer.
\* (Readings that kept a ready character are left aside.)
C16_UnparsableIsZero ==
    (/\ BusyEnded
     /\ Len(samp) >= 1
     /\ \E i \in 1..Len(samp) : NoInteger(samp[i])
     /\ \A i \in 1..Len(samp) : ~Contains(samp[i], ready_char)) =>
        /\ Len(samp) = 2 \/ \E i \in 1..Len(waitEnds) : waitEnds[i] = "deadline"
        /\ Len(samp) = 2 =>
              result.val = PyBool(AsPosition(samp[1]) # AsPosition(samp[2]))

-----------------------------------------------------------------------------
(* Claims about the scale and about construction *)

\* the session exists: __init__ has returned
Constructed == op.name # "__init__" \/ (pc = "idle" /\ result.kind = "ok")

\* C17: while no scale is set, mm_to_steps and move_mm fail with the
\* not-configured error (RuntimeError); the call makes no flush, no write and
\* no read, leaves the bytes waiting in the port where they are, and leaves
\* the scale unset.
C17_UnscaledFailsWithoutIO ==
    (op.name \in {"mm_to_steps", "move_mm"} /\ steps_per_mm = None) =>
        /\ pc = "idle"
        /\ todo = <<>>
        /\ result.kind = "RuntimeError"
        /\ CallLog = <<>>
        /\ reads = entryReads
        /\ arrived - Len(rx) = entryGone

\* C17 witness: move_mm has failed on a session that has made a call before,
\* with a byte still waiting in the port.
C17_Witness ==
    /\ op.name = "move_mm"
    /\ steps_per_mm = None
    /\ result.kind = "RuntimeError"
    /\ ncalls = 2
    /\ Len(log) > 2
    /\ rx # <<>>

\* C18: the scale is unset when the session is created (None as soon as
\* __init__ has returned, and until the first set_scale), and every later
\* change of it is made by a set_scale call that succeeded and leaves it set
\* to the value passed; no other step, failing or not, touches it.
C18_ScaleLifecycle ==
    [][ /\ (op.name = "__init__" /\ pc # "idle" /\ pc' = "idle" /\ result'.kind = "ok")
            => steps_per_mm' = None
        /\ (steps_per_mm' # steps_per_mm /\ steps_per_mm # NoAttr)
            => /\ op'.name = "set_scale"
               /\ pc = "idle" /\ pc' = "idle"
               /\ result'.kind = "ok"
               /\ steps_per_mm' = Float(op'.arg.h) ]_vars

\* C18 witness: with the scale set to 40.0, a home call has timed out and the
\* scale is still 40.0.
C18_Witness ==
    /\ op.name = "home"
    /\ pc = "idle"
    /\ result.kind = "Timeout"
    /\ steps_per_mm = Float(80)

\* C19: construction writes F and CR exactly once, after one flush, reads
\* nothing, and always completes: __init__ returns without an error whatever
\* the port does with the write, and the session is then usable with its
\* scale unset.
C19_ConstructionBestEffort ==
    /\ (op.name = "__init__" /\ pc = "idle") =>
          /\ result.kind = "ok"
          /\ steps_per_mm = None
    /\ Constructed =>
          /\ IsPrefix(ConstructLog, log)
          /\ \A i \in 3..Len(log) : log[i].data # <<"F", CR>>
    /\ ncalls = 0 => reads = 0

-----------------------------------------------------------------------------
(* Claims about bytes and calls *)

\* the digits of a text, as the numbers of the emissions they came from
EmissionsIn(t) == {DigitVal(t[i]) : i \in {j \in 1..Len(t) : IsDigit(t[j])}}

\* C20: the text a wait_ready or send call returns holds no byte that an
\* earlier call had taken out of the port (read, the bytes dropped after a
\* ready character included, or flushed): with the controller emitting each
\* digit once, every digit of the result was still unread at call entry.
C20_NoByteReturnedTwice ==
    (op.name \in {"wait_ready", "send"}) =>
        /\ \A d \in EmissionsIn(buf) \cup EmissionsIn(resp) : d > entryGone
        /\ (pc = "idle" /\ result.kind = "ok") =>
              \A d \in EmissionsIn(result.val) : d > entryGone

\* C20 witness: two wait_ready calls (no send: the port saw no write after
\* construction); the first took bytes, the second has returned text.
C20_Witness ==
    /\ op.name = "wait_ready"
    /\ ncalls = 2
    /\ Len(log) = 2
    /\ pc = "idle"
    /\ result.kind = "ok"
    /\ entryGone >= 1
    /\ result.val # <<>>

-----------------------------------------------------------------------------
(* Claims about send *)

\* a send call that asked for neither the immediate capture nor blocking
FireAndForget == op.name = "send" /\ ~op.wait /\ ~op.block

\* C21: send(cmd, wait=False, block_until_ready=False) (libvxm.py:
\* send(cmd, wait=False)) returns the empty string and makes no read of the
\* port: the call is one flush and one write, and every byte the port got
\* after the flush is still in its input buffer when the call has returned.
C21_FireAndForgetReadsNothing ==
    FireAndForget =>
        /\ reads = entryReads
        /\ pc = "idle" =>
              /\ result = [kind |-> "ok", val |-> <<>>]
              /\ Len(CallLog) = 2
              /\ CallLog[1] = FlushEv
              /\ CallLog[2].ev = "write"
              /\ Len(rx) = arrived - flushArr

\* C21 witness: such a call has returned, and a byte that arrived after its
\* flush is waiting in the input buffer.
C21_Witness ==
    /\ FireAndForget
    /\ pc = "idle"
    /\ result.kind = "ok"
    /\ rx # <<>>

\* bytes that have left the input buffer, by a read or a flush
Gone == arrived - Len(rx)

\* emission e of the answering controller was read by the running send call
\* (it came after the call's flush and has left the input buffer since)
ReadByThisSend(e) == e > flushArr /\ e <= Gone

\* C22: in char mode, send(cmd, wait=True, block_until_ready=True, timeout=T)
\* returns successfully whenever the controller emits the ready character
\* for cmd between the write and the deadline: no such call that has read a
\* ready character answering its own command ends in Timeout.
C22_SentinelCompletesSend ==
    ( /\ ready_mode = "char"
      /\ op.name = "send" /\ op.wait /\ op.block
      /\ pc = "idle"
      /\ \E e \in 1..Len(emitted) :
            /\ ReadByThisSend(e)
            /\ emitted[e].cmd = NumWrites
            /\ emitted[e].byte = ready_char )
    => result.kind = "ok"

\* the numbers of the emissions that the latest read of wait_ready returned
LastPollEmissions == (Gone - Len(lastPoll) + 1)..Gone

\* C23: a ready character emitted for an earlier command is never taken as
\* the completion of a later blocking command: whenever the wait of one of
\* the blocking runs of home returns in char mode, the read that made it
\* return holds a ready character the controller emitted in answer to that
\* run (the latest command written).
C23_ReturnsOnOwnSentinel ==
    [][ ( /\ ready_mode = "char"
          /\ op.name = "home"
          /\ waitEnds' = Append(waitEnds, "ready") )
        => (\E e \in LastPollEmissions :
               /\ emitted[e].byte = ready_char
               /\ emitted[e].cmd = NumWrites)' ]_vars

\* the consequence C23 draws for home, whose third write is the seek run and
\* fourth the backoff move (the F of construction being command 1): the
\* backoff move is in the trace only after the controller has emitted the
\* ready character of the seek run
BackoffAfterSeekDone ==
    (op.name = "home" /\ Len(CallLog) >= 8) =>
        \E e \in 1..Len(emitted) :
           emitted[e].cmd = 4 /\ emitted[e].byte = ready_char

\* C24: the text a send call returns holds only bytes the port received
\* after that call's flush: with the controller numbering its emissions,
\* every digit in the call's locals and in its result was emitted after the
\* flush. (That two sends issued back to back without waiting lose the
\* answer to the first is the execution C24_Witness describes.)
C24_OnlyBytesAfterFlush ==
    (op.name = "send" /\ pc # "send_flush") =>
        /\ \A d \in EmissionsIn(resp) \cup EmissionsIn(buf) : d > flushArr
        /\ (pc = "idle" /\ result.kind = "ok") =>
              \A d \in EmissionsIn(result.val) : d > flushArr

\* C24 witness: two calls of send, neither of which waited (no read of the
\* port was ever made); the controller answered the first command (command
\* 2, after the F of construction) before the second call's flush, which
\* discarded that answer; the second call has returned and the answer is in
\* no buffer and no result.
C24_Witness ==
    /\ ncalls = 2
    /\ FireAndForget
    /\ Len(log) = 6
    /\ reads = 0
    /\ pc = "idle"
    /\ result = [kind |-> "ok", val |-> <<>>]
    /\ rx = <<>>
    /\ \E e \in 1..Len(emitted) :
          /\ e <= flushArr
          /\ emitted[e].cmd = 2
          /\ IsDigit(emitted[e].byte)

=============================================================================
